---- MODULE Spec2Model ----
(***************************************************************************)
(* snarp.py: the silence-removal pipeline of remove_silences.              *)
(*                                                                         *)
(*   chunked_samples -> tag_chunks -> tag_segments -> segmenter (groupby)  *)
(*   -> the writer loop of remove_silences.                                *)
(*                                                                         *)
(* The stages are Python generators: a stage runs only while its consumer  *)
(* is inside next() on it, and stops at its next yield.  The model keeps   *)
(* one position per suspended generator (tpc for tag_segments, pc for the  *)
(* loop of remove_silences) and the locals that live across a yield.       *)
(***************************************************************************)
EXTENDS Integers, Sequences, FiniteSets, TLC

\* ---------------------------------------------------------------- bounds

\* Longest input, in frames.
MaxFrames == 10

\* Longest input of the two-run specification, in frames.
MaxRerunFrames == 8

\* Longest input of the classification specification, in frames.
MaxClassifyFrames == 4

\* ------------------------------------------------------ program constants

DEFAULT_SILENCE_MIN == 120
DEFAULT_SILENCE_MAX == 135

\* RingBuffer(maxlen=1)
PreRollMaxlenTwo == 1 + 1

PreRollMaxlen == 1

\* struct formats 'l' / 'L': four bytes
CanonicalWidth == 4

\* ----------------------------------------------------------- input sets

\* Byte values of the inputs: below SILENCE_MIN, and above SILENCE_MAX.
ByteVals == {119, 136}

\* Byte values of the classification inputs: the two thresholds as well.
ClassifyByteVals == {119, 120, 135, 136}

\* getframerate() of the inputs; CHUNK_SECONDS is 1.0.
FrameRates == {2}

\* getsampwidth() and getnchannels() of the inputs.
SampWidths == {1}

Channels == {1}

None == <<>>

Some(x) == <<x>>

VARIABLES
    \* module globals
    SILENCE_MIN, SILENCE_MAX, INPUT_ENDIANNESS, INPUT_SIGNEDNESS,
    \* the input wave file: its data bytes, its parameters, the read position
    input_wave, framerate, sampwidth, nchannels, readpos,
    \* bypass_file is not None
    bypass,
    \* tag_segments: position, locals
    tpc, chunk, pre_roll_buffer, roll_i, segment_silent,
    \* itertools.groupby inside segmenter
    tgtkey, currkey, currvalue,
    \* a next() on tag_segments is in progress
    pulling,
    \* remove_silences: position, loop variables
    pc, silent_segment, chunk_frames,
    \* blocks written by writeframes
    output_wave, bypass_wave,
    \* the wave objects close() was called on
    closed,
    \* the exception in flight, and the one that ended the loop
    exc, cause,
    \* history: what chunked_samples, tag_chunks and tag_segments yielded
    chunked, tagged, emitted,
    \* the override scopes entered and not yet left, innermost last; an exception
    \* is unwinding them
    scopes, raising,
    \* a call of frame_to_sample: its arguments, its padded buffer and result
    sample_in, sample_out,
    \* which run over the data this is (1: the input, 2: the first run's output)
    pass

globals == <<SILENCE_MIN, SILENCE_MAX, INPUT_ENDIANNESS, INPUT_SIGNEDNESS>>

params == <<input_wave, framerate, sampwidth, nchannels, bypass, pass>>

tagger == <<tpc, chunk, pre_roll_buffer, roll_i, segment_silent>>

grouper == <<tgtkey, currkey, currvalue>>

files == <<output_wave, bypass_wave, closed>>

side == <<scopes, raising, sample_in, sample_out>>

vars == <<globals, side, params, readpos, tagger, grouper, pulling, pc, silent_segment,
          chunk_frames, files, exc, cause, chunked, tagged, emitted>>

\* ------------------------------------------------------------ sequences

Range(s) == {s[i] : i \in 1..Len(s)}

SeqsUpTo(S, n) == UNION {[1..k -> S] : k \in 0..n}

RECURSIVE Flatten(_)
Flatten(ss) == IF ss = <<>> THEN <<>> ELSE Head(ss) \o Flatten(Tail(ss))

\* ---------------------------------------------------- frame_to_sample

\* A sample is a 32-bit integer kept as <<high byte, low 24 bits>>, the high byte
\* read as signed (-128..127) or unsigned (0..255).
Pow24 == 256 * 256 * 256

ToSample(n) == <<n \div Pow24, n % Pow24>>

Less(a, b) == a[1] < b[1] \/ (a[1] = b[1] /\ a[2] < b[2])

\* struct.unpack('<l' | '<L' | '>l' | '>L', frame_data)
unpack(endian, signed_data, d) ==
    LET hi == IF endian = "little" THEN d[4] ELSE d[1]
        lo == IF endian = "little"
                THEN d[1] + 256 * d[2] + 65536 * d[3]
                ELSE d[4] + 256 * d[3] + 65536 * d[2]
    IN  <<IF signed_data /\ hi >= 128 THEN hi - 256 ELSE hi, lo>>

\* Lines 212-239: the first channel's bytes, padded to four bytes.
pad_frame(frame, sample_width, endian) ==
    LET frame_data == SubSeq(frame, 1, sample_width)
        frame_data_MSB == IF endian = "little" THEN frame_data[sample_width]
                          ELSE frame_data[1]
        padding_MSB == IF (frame_data_MSB \div 128) % 2 = 1 THEN 255 ELSE 0
        padding == [i \in 1..(CanonicalWidth - sample_width - 1) |-> 0]
        padded == IF sample_width < CanonicalWidth
                    THEN IF endian = "little"
                           THEN frame_data \o padding \o <<padding_MSB>>
                           ELSE <<padding_MSB>> \o padding \o frame_data
                    ELSE frame_data
    IN  padded

frame_to_sample(frame, sample_width, signed_data, endian) ==
    unpack(endian, signed_data, pad_frame(frame, sample_width, endian))

\* The exception frame_to_sample raises on the frames of a chunk ("None": none).
\* Only the last frame of a read can be short; with fewer than sample_width bytes
\* line 218 indexes past its end (little-endian), or struct.unpack gets fewer
\* than four bytes.
decode_error(frames, sample_width, nch, endian) ==
    LET r == Len(frames) % (sample_width * nch) IN
    IF r = 0 \/ r >= sample_width THEN "None"
    ELSE IF endian = "little" /\ sample_width < CanonicalWidth THEN "IndexError"
    ELSE "struct.error"

input_is_signed_data(signedness, sample_width) ==
    IF signedness = "None" THEN sample_width > 1 ELSE signedness = "signed"

parse_frames(frames, sample_width, nch, signed_data, endian) ==
    LET chunk_size == sample_width * nch
        n == (Len(frames) + chunk_size - 1) \div chunk_size
    IN  [k \in 1..n |->
            frame_to_sample(
                SubSeq(frames, (k - 1) * chunk_size + 1,
                       IF k * chunk_size < Len(frames) THEN k * chunk_size
                       ELSE Len(frames)),
                sample_width, signed_data, endian)]

\* ------------------------------------------------------ chunked_samples

frames_per_chunk == framerate

\* input_wave.readframes(n) at read position p: the bytes it returns
readframes(p, n) ==
    LET last == IF p + n * sampwidth * nchannels < Len(input_wave)
                  THEN p + n * sampwidth * nchannels ELSE Len(input_wave)
    IN  SubSeq(input_wave, p + 1, last)

\* ----------------------------------------------------------- tag_chunks

MinSample(s) == CHOOSE x \in Range(s) : \A y \in Range(s) : ~Less(y, x)

MaxSample(s) == CHOOSE x \in Range(s) : \A y \in Range(s) : ~Less(x, y)

\* Line 155
empty_chunk_or_short(chunk_samples) == Len(chunk_samples) <= 1

empty_chunk(chunk_samples) == Len(chunk_samples) = 0

AudibleEither(chunk_samples) ==
    \/ Less(MinSample(chunk_samples), ToSample(SILENCE_MIN))
    \/ Less(ToSample(SILENCE_MAX), MaxSample(chunk_samples))

Audible(chunk_samples) ==
    /\ Less(MinSample(chunk_samples), ToSample(SILENCE_MIN))
    /\ Less(ToSample(SILENCE_MAX), MaxSample(chunk_samples))

\* ----------------------------------------------------------- RingBuffer

\* RingBuffer.append: <<discard, the deque afterwards>>
RingBufferKeepOldest(buf, value) ==
    IF Len(buf) = 1
      THEN <<Some(value), buf>>
      ELSE <<None, Append(buf, value)>>

RingBufferAppend(buf, value) ==
    IF Len(buf) = PreRollMaxlen
      THEN <<Some(Head(buf)), Append(Tail(buf), value)>>
      ELSE <<None, Append(buf, value)>>

\* --------------------------------------------------------- tag_segments

\* Which yield of tag_segments a chunk reaches first ("for": none, the loop goes
\* on to the next chunk).  y133: a pre-roll chunk; y138: the chunk that changes
\* the state; y144: the chunk the ring buffer discarded; y146: an audible chunk
\* inside an audible segment.
tag_branch_no_pre_roll(chunk_silent, seg_silent, buf) ==
    IF chunk_silent # seg_silent THEN "y138"
    ELSE IF chunk_silent
      THEN (IF Len(buf) = PreRollMaxlen THEN "y144" ELSE "for")
      ELSE "y146"

tag_branch(chunk_silent, seg_silent, buf) ==
    IF chunk_silent # seg_silent
      THEN (IF ~chunk_silent /\ buf # <<>> THEN "y133" ELSE "y138")
    ELSE IF chunk_silent
      THEN (IF Len(buf) = PreRollMaxlen THEN "y144" ELSE "for")
      ELSE "y146"

\* The first element of the pair tag_segments yields at each of its yields.
yield_silent_raw(at, chunk_silent) ==
    IF at = "y138" THEN chunk_silent ELSE at = "y144"

yield_silent_never(at, chunk_silent) == FALSE

yield_silent(at, chunk_silent) == at = "y144"

\* ------------------------------------------------------ remove_silences

\* except (KeyboardInterrupt, EOFError): pass
caught_eof_only(e) == e = "EOFError"

caught(e) == e \in {"KeyboardInterrupt", "EOFError"}

\* The wave objects the finally block closes.
to_close == {"input_wave", "output_wave"} \cup (IF bypass THEN {"bypass_wave"} ELSE {})

\* The branch of line 312/316: the segment's chunks go to the primary output.
to_primary_always(silent) == TRUE

to_primary(silent) == ~silent

\* Lines 312-317: the loop iterates the segment (a silent segment only for the
\* bypass output).
iterates_audible_only(silent, byp) == ~silent

iterates(silent, byp) == ~silent \/ byp

InLoop == pc \in {"outer", "inner", "w315", "w318", "w320"}

\* ------------------------------------------------------------- initial

\* Line 134: pre_roll_buffer.clear()
not_cleared(buf) == buf

cleared(buf) == <<>>

\* The module globals as the module sets them.
DefaultGlobals ==
    /\ SILENCE_MIN = DEFAULT_SILENCE_MIN
    /\ SILENCE_MAX = DEFAULT_SILENCE_MAX
    /\ INPUT_ENDIANNESS = "little"
    /\ INPUT_SIGNEDNESS = "None"

\* No override scope entered, no call of frame_to_sample on its own.
Idle ==
    /\ scopes = <<>>
    /\ raising = FALSE
    /\ sample_in = None
    /\ sample_out = None

\* The state as remove_silences enters its try block, reading `data`.
Pipeline(data, rate, width, nch, byp, run) ==
    /\ input_wave = data
    /\ framerate = rate
    /\ sampwidth = width
    /\ nchannels = nch
    /\ readpos = 0
    /\ bypass = byp
    /\ tpc = "for"
    /\ chunk = None
    /\ pre_roll_buffer = <<>>
    /\ roll_i = 0
    /\ segment_silent = TRUE
    /\ tgtkey = None
    /\ currkey = None
    /\ currvalue = None
    /\ pulling = FALSE
    /\ pc = "outer"
    /\ silent_segment = None
    /\ chunk_frames = None
    /\ output_wave = <<>>
    /\ bypass_wave = <<>>
    /\ closed = {}
    /\ exc = "None"
    /\ cause = "None"
    /\ chunked = <<>>
    /\ tagged = <<>>
    /\ emitted = <<>>
    /\ pass = run

Start(data, rate, width, nch, byp, run) ==
    DefaultGlobals /\ Idle /\ Pipeline(data, rate, width, nch, byp, run)

Init ==
    \E data \in SeqsUpTo(ByteVals, MaxFrames), rate \in FrameRates,
       width \in SampWidths, nch \in Channels, byp \in BOOLEAN :
        Start(data, rate, width, nch, byp, 1)

InitRerun ==
    \E data \in SeqsUpTo(ByteVals, MaxRerunFrames), rate \in FrameRates,
       width \in SampWidths, nch \in Channels, byp \in BOOLEAN :
        Start(data, rate, width, nch, byp, 1)

InitClassify ==
    \E data \in SeqsUpTo(ClassifyByteVals, MaxClassifyFrames), rate \in FrameRates,
       width \in SampWidths, nch \in Channels, byp \in BOOLEAN :
        Start(data, rate, width, nch, byp, 1)

\* ------------------------------------------------------------- actions

\* tag_segments yields (silent, frames): groupby takes it as its current item.
Deliver(silent, frames) ==
    /\ emitted' = Append(emitted, [silent |-> silent, frames |-> frames])
    /\ currkey' = Some(silent)
    /\ currvalue' = Some(frames)
    /\ pulling' = FALSE
    /\ UNCHANGED tgtkey

\* What tag_segments does with the chunk it holds, from the top of its loop body.
Dispatch(c) ==
    LET at == tag_branch(c.silent, segment_silent, pre_roll_buffer) IN
    /\ tpc' = at
    /\ chunk' = Some(c)
    /\ CASE at = "y133" ->
              /\ roll_i' = 1
              /\ Deliver(yield_silent(at, c.silent), pre_roll_buffer[1])
              /\ UNCHANGED pre_roll_buffer
         [] at = "y144" ->
              LET r == RingBufferAppend(pre_roll_buffer, c.frames) IN
              /\ pre_roll_buffer' = r[2]
              /\ Deliver(yield_silent(at, c.silent), r[1][1])
              /\ UNCHANGED roll_i
         [] at = "for" ->
              /\ pre_roll_buffer' = RingBufferAppend(pre_roll_buffer, c.frames)[2]
              /\ UNCHANGED <<roll_i, emitted, grouper, pulling>>
         [] OTHER ->
              /\ Deliver(yield_silent(at, c.silent), c.frames)
              /\ UNCHANGED <<roll_i, pre_roll_buffer>>

\* An exception raised below tag_segments leaves the generators and reaches the
\* try of remove_silences (line 322); the chunk just read, `block`, goes nowhere.
\* `yielded`: chunked_samples had yielded the block (tag_chunks raises), or had
\* not (its own decoding raises).
RaiseAfterBypassWrite(e, block, yielded) ==
    /\ exc' = e
    /\ cause' = e
    /\ pc' = "except"
    /\ pulling' = FALSE
    /\ chunked' = IF yielded THEN Append(chunked, block) ELSE chunked
    /\ bypass_wave' = Append(bypass_wave, block)
    /\ UNCHANGED <<tagger, grouper, tagged, emitted, output_wave, closed>>

KeepPulling(e, block, yielded) ==
    UNCHANGED <<exc, cause, pc, pulling, chunked, tagger, grouper, tagged, emitted, files>>

RaiseFromChunk(e, block, yielded) ==
    /\ exc' = e
    /\ cause' = e
    /\ pc' = "except"
    /\ pulling' = FALSE
    /\ chunked' = IF yielded THEN Append(chunked, block) ELSE chunked
    /\ UNCHANGED <<tagger, grouper, tagged, emitted, files>>

\* Line 126, with tag_chunks and chunked_samples below it: read the next chunk,
\* decode it, classify it, run the loop body of tag_segments to its first yield.
TagFor ==
    /\ pulling /\ tpc = "for"
    /\ LET frames == readframes(readpos, frames_per_chunk)
           block == [off |-> readpos, data |-> frames]
           failure == decode_error(frames, sampwidth, nchannels, INPUT_ENDIANNESS)
           chunk_samples == parse_frames(frames, sampwidth, nchannels,
                               input_is_signed_data(INPUT_SIGNEDNESS, sampwidth),
                               INPUT_ENDIANNESS)
       IN  /\ readpos' = readpos + Len(frames)
           /\ IF failure # "None"
                THEN \* line 180: list(parse_frames(...)) raises, nothing is yielded
                     RaiseFromChunk(failure, block, FALSE)
                ELSE IF empty_chunk(chunk_samples)
                THEN \* line 156
                     RaiseFromChunk("EOFError", block, TRUE)
                ELSE LET c == [silent |-> ~Audible(chunk_samples), frames |-> block]
                     IN  /\ chunked' = Append(chunked, block)
                         /\ tagged' = Append(tagged, c)
                         /\ Dispatch(c)
                         /\ UNCHANGED <<segment_silent, pc, exc, cause, files>>
    /\ UNCHANGED <<globals, side, params, silent_segment, chunk_frames>>

\* Resume after line 133: the next pre-roll chunk, or clear the buffer and go on
\* to line 138.
TagResumePreRoll ==
    /\ pulling /\ tpc = "y133"
    /\ IF roll_i < Len(pre_roll_buffer)
         THEN /\ roll_i' = roll_i + 1
              /\ Deliver(yield_silent("y133", chunk[1].silent), pre_roll_buffer[roll_i + 1])
              /\ UNCHANGED <<tpc, pre_roll_buffer>>
         ELSE /\ pre_roll_buffer' = cleared(pre_roll_buffer)
              /\ roll_i' = 0
              /\ tpc' = "y138"
              /\ Deliver(yield_silent("y138", chunk[1].silent), chunk[1].frames)
    /\ UNCHANGED <<globals, side, params, readpos, chunk, segment_silent, pc, silent_segment,
                   chunk_frames, files, exc, cause, chunked, tagged>>

\* Resume after line 138: line 139, then the top of the loop.
TagResumeTransition ==
    /\ pulling /\ tpc = "y138"
    /\ segment_silent' = chunk[1].silent
    /\ tpc' = "for"
    /\ chunk' = None
    /\ UNCHANGED <<globals, side, params, readpos, pre_roll_buffer, roll_i, grouper, pulling,
                   pc, silent_segment, chunk_frames, files, exc, cause, chunked, tagged, emitted>>

\* Resume after line 144 or 146: the top of the loop.
TagResumeSame ==
    /\ pulling /\ tpc \in {"y144", "y146"}
    /\ tpc' = "for"
    /\ chunk' = None
    /\ UNCHANGED <<globals, side, params, readpos, pre_roll_buffer, roll_i, segment_silent,
                   grouper, pulling, pc, silent_segment, chunk_frames, files, exc,
                   cause, chunked, tagged, emitted>>

\* readframes fails.
ReadError ==
    /\ pulling /\ tpc = "for"
    /\ exc' = "IOError"
    /\ cause' = "IOError"
    /\ pc' = "except"
    /\ pulling' = FALSE
    /\ UNCHANGED <<globals, side, params, readpos, tagger, grouper, silent_segment,
                   chunk_frames, files, chunked, tagged, emitted>>

\* Line 303, groupby.next(): skip to the next group.
GroupbyNext ==
    /\ pc = "outer" /\ ~pulling
    /\ IF currkey = None \/ (tgtkey # None /\ tgtkey = currkey)
         THEN /\ pulling' = TRUE
              /\ UNCHANGED <<tgtkey, pc, silent_segment>>
         ELSE /\ tgtkey' = currkey
              /\ silent_segment' = currkey
              /\ pc' = IF iterates(currkey[1], bypass) THEN "inner" ELSE "outer"
              /\ UNCHANGED pulling
    /\ UNCHANGED <<globals, side, params, readpos, tagger, currkey, currvalue, chunk_frames,
                   files, exc, cause, chunked, tagged, emitted>>

\* Lines 314 and 317, the group's next(): the next chunk of the segment.
GrouperNext ==
    /\ pc = "inner" /\ ~pulling
    /\ IF currvalue = None
         THEN /\ pulling' = TRUE
              /\ UNCHANGED <<currkey, currvalue, pc, chunk_frames>>
         ELSE IF currkey # tgtkey
           THEN /\ pc' = "outer"
                /\ UNCHANGED <<currkey, currvalue, pulling, chunk_frames>>
           ELSE /\ chunk_frames' = currvalue
                /\ currvalue' = None
                /\ currkey' = None
                /\ pc' = IF to_primary(silent_segment[1]) THEN "w318" ELSE "w315"
                /\ UNCHANGED pulling
    /\ UNCHANGED <<globals, side, params, readpos, tagger, tgtkey, silent_segment, files,
                   exc, cause, chunked, tagged, emitted>>

\* Line 315
WriteBypassSilent ==
    /\ pc = "w315"
    /\ bypass_wave' = Append(bypass_wave, chunk_frames[1])
    /\ pc' = "inner"
    /\ UNCHANGED <<globals, side, params, readpos, tagger, grouper, pulling, silent_segment,
                   chunk_frames, output_wave, closed, exc, cause, chunked, tagged, emitted>>

\* Line 318
WriteOutput ==
    /\ pc = "w318"
    /\ output_wave' = Append(output_wave, chunk_frames[1])
    /\ pc' = IF bypass THEN "w320" ELSE "inner"
    /\ UNCHANGED <<globals, side, params, readpos, tagger, grouper, pulling, silent_segment,
                   chunk_frames, bypass_wave, closed, exc, cause, chunked, tagged, emitted>>

\* Line 320
WriteBypass ==
    /\ pc = "w320"
    /\ bypass_wave' = Append(bypass_wave, chunk_frames[1])
    /\ pc' = "inner"
    /\ UNCHANGED <<globals, side, params, readpos, tagger, grouper, pulling, silent_segment,
                   chunk_frames, output_wave, closed, exc, cause, chunked, tagged, emitted>>

\* writeframes fails.
WriteError ==
    /\ pc \in {"w315", "w318", "w320"}
    /\ exc' = "IOError"
    /\ cause' = "IOError"
    /\ pc' = "except"
    /\ UNCHANGED <<globals, side, params, readpos, tagger, grouper, pulling, silent_segment,
                   chunk_frames, files, chunked, tagged, emitted>>

\* The user interrupts the loop.
Interrupt ==
    /\ InLoop
    /\ exc' = "KeyboardInterrupt"
    /\ cause' = "KeyboardInterrupt"
    /\ pc' = "except"
    /\ pulling' = FALSE
    /\ UNCHANGED <<globals, side, params, readpos, tagger, grouper, silent_segment,
                   chunk_frames, files, chunked, tagged, emitted>>

\* Lines 322-323
Except ==
    /\ pc = "except"
    /\ exc' = IF caught(exc) THEN "None" ELSE exc
    /\ pc' = "finally"
    /\ UNCHANGED <<globals, side, params, readpos, tagger, grouper, pulling, silent_segment,
                   chunk_frames, files, cause, chunked, tagged, emitted>>

\* Lines 324-328
Finally ==
    /\ pc = "finally"
    /\ closed' = closed \cup to_close
    /\ pc' = "done"
    /\ UNCHANGED <<globals, side, params, readpos, tagger, grouper, pulling, silent_segment,
                   chunk_frames, output_wave, bypass_wave, exc, cause, chunked, tagged, emitted>>

Next ==
    \/ TagFor
    \/ TagResumePreRoll
    \/ TagResumeTransition
    \/ TagResumeSame
    \/ ReadError
    \/ GroupbyNext
    \/ GrouperNext
    \/ WriteBypassSilent
    \/ WriteOutput
    \/ WriteBypass
    \/ WriteError
    \/ Interrupt
    \/ Except
    \/ Finally

Spec == Init /\ [][Next]_vars

SpecClassify == InitClassify /\ [][Next]_vars

\* ------------------------------------------------- the end-to-end scenario

ChunkS == <<119, 119>>

ChunkA == <<119, 136>>

\* Ten chunks classified S S A A A S S S A S.
ScenarioData ==
    ChunkS \o ChunkS \o ChunkA \o ChunkA \o ChunkA \o ChunkS \o ChunkS \o ChunkS
    \o ChunkA \o ChunkS

InitScenario == \E byp \in BOOLEAN : Start(ScenarioData, 2, 1, 1, byp, 1)

SpecScenario == InitScenario /\ [][Next]_vars

\* ------------------------------------------------------- a second run

\* The bytes of the frames written to the primary output.
OutputData == Flatten([i \in 1..Len(output_wave) |-> output_wave[i].data])

\* remove_silences is run again, on the output of a run that ended at the end of
\* its input; the output file carries the input's parameters (lines 276-283).
Rerun ==
    /\ pc = "done" /\ pass = 1 /\ cause = "EOFError" /\ exc = "None"
    /\ input_wave' = OutputData
    /\ pass' = 2
    /\ readpos' = 0
    /\ tpc' = "for"
    /\ chunk' = None
    /\ pre_roll_buffer' = <<>>
    /\ roll_i' = 0
    /\ segment_silent' = TRUE
    /\ tgtkey' = None
    /\ currkey' = None
    /\ currvalue' = None
    /\ pulling' = FALSE
    /\ pc' = "outer"
    /\ silent_segment' = None
    /\ chunk_frames' = None
    /\ output_wave' = <<>>
    /\ bypass_wave' = <<>>
    /\ closed' = {}
    /\ exc' = "None"
    /\ cause' = "None"
    /\ chunked' = <<>>
    /\ tagged' = <<>>
    /\ emitted' = <<>>
    /\ UNCHANGED <<globals, side, framerate, sampwidth, nchannels, bypass>>

NextRerun == Next \/ Rerun

SpecRerun == InitRerun /\ [][NextRerun]_vars

\* ================================================================ claims

RECURSIVE IsSubseq(_, _)
IsSubseq(a, b) ==
    IF a = <<>> THEN TRUE
    ELSE IF b = <<>> THEN FALSE
    ELSE IF Head(a) = Head(b) THEN IsSubseq(Tail(a), Tail(b))
    ELSE IsSubseq(a, Tail(b))

IsPrefix(a, b) == Len(a) <= Len(b) /\ a = SubSeq(b, 1, Len(a))

\* The input cut into blocks of frames_per_chunk frames, the last one shorter.
FrameSize == sampwidth * nchannels

ChunkBytes == frames_per_chunk * FrameSize

NumChunks == (Len(input_wave) + ChunkBytes - 1) \div ChunkBytes

InputBlocks ==
    [k \in 1..NumChunks |->
        [off |-> (k - 1) * ChunkBytes,
         data |-> SubSeq(input_wave, (k - 1) * ChunkBytes + 1,
                         IF k * ChunkBytes < Len(input_wave) THEN k * ChunkBytes
                         ELSE Len(input_wave))]]

\* The run ended because the input was exhausted.
EndOfStream == pc = "done" /\ cause = "EOFError"

IsAudibleTag(e) == ~e.silent

FramesOf(items) == [i \in 1..Len(items) |-> items[i].frames]

SilentOf(items) == [i \in 1..Len(items) |-> items[i].silent]

\* The chunks tag_segments yielded with tag AUDIBLE (False), in order.
AudibleEmitted == FramesOf(SelectSeq(emitted, IsAudibleTag))

RECURSIVE FrameCount(_)
FrameCount(blocks) ==
    IF blocks = <<>> THEN 0
    ELSE Len(Head(blocks).data) \div FrameSize + FrameCount(Tail(blocks))

S == TRUE

A == FALSE

\* C1: frame conservation. When a bypass output is configured and the run ends at
\* the end of the input, the bypass output holds exactly the input's blocks in
\* order.
C1_FrameConservation == (EndOfStream /\ bypass) => bypass_wave = InputBlocks

\* C2: subset property. With a bypass output configured, the blocks written to the
\* primary output are an order-preserving sub-sequence of the blocks written to the
\* bypass output; stated here for the end of a run that the end of the input or a
\* user interrupt ended, the part of the claim the files left behind show.
C2_PrimarySubsequenceOfBypass ==
    (pc = "done" /\ cause \in {"EOFError", "KeyboardInterrupt"} /\ bypass)
        => IsSubseq(output_wave, bypass_wave)

\* C3: primary output content. The primary output holds the blocks tag_segments
\* yielded with tag AUDIBLE, each once and in order, and no block yielded with tag
\* SILENT: a prefix of them while the run goes on, all of them when the run ends at
\* the end of the input; its frame count is then the sum of their frame counts.
C3_PrimaryIsAudibleTagged ==
    /\ IsPrefix(output_wave, AudibleEmitted)
    /\ \A i \in 1..Len(output_wave), j \in 1..Len(emitted) :
          emitted[j].frames = output_wave[i] => ~emitted[j].silent
    /\ EndOfStream =>
          /\ output_wave = AudibleEmitted
          /\ FrameCount(output_wave) = FrameCount(AudibleEmitted)

C3_Witness ==
    /\ EndOfStream
    /\ Len(output_wave) >= 3
    /\ \E j \in 1..Len(emitted) : emitted[j].silent

\* C4: pre-roll and post-roll. When the input is exhausted, every audible chunk,
\* every silent chunk right before an audible chunk and every silent chunk right
\* after an audible chunk has been yielded with tag AUDIBLE; chunks classified
\* S S S A S are yielded, in order, with tags S S A A A.
C4_PreRollPostRoll ==
    cause = "EOFError" =>
        /\ \A i \in 1..Len(tagged) :
              ( \/ ~tagged[i].silent
                \/ (i > 1 /\ ~tagged[i - 1].silent)
                \/ (i < Len(tagged) /\ ~tagged[i + 1].silent) )
              => \E j \in 1..Len(emitted) :
                    emitted[j] = [silent |-> FALSE, frames |-> tagged[i].frames]
        /\ SilentOf(tagged) = <<S, S, S, A, S>> =>
              /\ SilentOf(emitted) = <<S, S, A, A, A>>
              /\ FramesOf(emitted) = FramesOf(tagged)

C4_Witness ==
    /\ EndOfStream
    /\ SilentOf(tagged) = <<S, S, S, A, S>>
    /\ Len(emitted) = 5

\* C5: at most one chunk of pre-roll. A silent chunk whose predecessor and
\* successor are both not audible is never yielded with tag AUDIBLE; chunks
\* classified S S S S A are yielded with tags S S S A A.
C5_AtMostOnePreRoll ==
    /\ \A i \in 1..Len(tagged), j \in 1..Len(emitted) :
          ( /\ emitted[j].frames = tagged[i].frames
            /\ ~emitted[j].silent
            /\ tagged[i].silent )
          => \/ (i > 1 /\ ~tagged[i - 1].silent)
             \/ (i < Len(tagged) /\ ~tagged[i + 1].silent)
    /\ (cause = "EOFError" /\ SilentOf(tagged) = <<S, S, S, S, A>>) =>
          /\ SilentOf(emitted) = <<S, S, S, A, A>>
          /\ FramesOf(emitted) = FramesOf(tagged)

C5_Witness ==
    /\ EndOfStream
    /\ SilentOf(tagged) = <<S, S, S, S, A>>
    /\ SilentOf(emitted) = <<S, S, S, A, A>>

\* The positions, in chunks, of the blocks of a file.
Positions(blocks) == [i \in 1..Len(blocks) |-> blocks[i].off \div ChunkBytes]

\* C6 as stated: the ten chunks S S A A A S S S A S give a primary output of the
\* chunks at positions 1 2 3 4 5 8 9 and a bypass output of all ten.
C6_ScenarioAsStated ==
    (EndOfStream /\ bypass) =>
        /\ Positions(output_wave) = <<1, 2, 3, 4, 5, 8, 9>>
        /\ Positions(bypass_wave) = <<0, 1, 2, 3, 4, 5, 6, 7, 8, 9>>

\* C6, amended: the ten chunks S S A A A S S S A S give a primary output of the
\* chunks at positions 1 2 3 4 5 7 8 9 (7 is the pre-roll of the run at 8) and a
\* bypass output of all ten, in order.
C6_Scenario ==
    (EndOfStream /\ bypass) =>
        /\ SilentOf(tagged) = <<S, S, A, A, A, S, S, S, A, S>>
        /\ Positions(output_wave) = <<1, 2, 3, 4, 5, 7, 8, 9>>
        /\ output_wave = [i \in 1..8 |-> InputBlocks[Positions(output_wave)[i] + 1]]
        /\ bypass_wave = InputBlocks

C6_Witness ==
    /\ EndOfStream /\ bypass
    /\ Len(tagged) = 10
    /\ Len(output_wave) = 8
    /\ Len(bypass_wave) = 10

\* C7: end-of-stream flush. When the input is exhausted, every chunk tag_segments
\* consumed has been yielded exactly once, the one left in the pre-roll buffer
\* with tag SILENT, and nothing else has been yielded.
C7_EndOfStreamFlush ==
    EndOfStream =>
        /\ \A i \in 1..Len(tagged) :
              Cardinality({j \in 1..Len(emitted) : emitted[j].frames = tagged[i].frames}) = 1
        /\ \A j \in 1..Len(emitted) :
              \E i \in 1..Len(tagged) : emitted[j].frames = tagged[i].frames

\* C8: idempotence. A second run, over the primary output of a run that ended at
\* the end of its input, writes all of its input to its primary output.
C8_Idempotence ==
    (pass = 2 /\ EndOfStream) =>
        /\ OutputData = input_wave
        /\ output_wave = InputBlocks

C8_Witness ==
    /\ pass = 2 /\ EndOfStream
    /\ Len(output_wave) >= 4
    /\ \E i, j \in 1..Len(tagged) : tagged[i].silent /\ ~tagged[j].silent

\* The decoded samples of a block.
SamplesOf(block) ==
    parse_frames(block.data, sampwidth, nchannels,
                 input_is_signed_data(INPUT_SIGNEDNESS, sampwidth), INPUT_ENDIANNESS)

HasBelowMin(block) ==
    \E k \in 1..Len(SamplesOf(block)) : Less(SamplesOf(block)[k], ToSample(SILENCE_MIN))

HasAboveMax(block) ==
    \E k \in 1..Len(SamplesOf(block)) : Less(ToSample(SILENCE_MAX), SamplesOf(block)[k])

\* C9: conjunctive classification. A chunk is classified audible exactly when it
\* has a sample below SILENCE_MIN and a sample above SILENCE_MAX; a chunk with all
\* samples inside the limits, or outside them on one side only, is silent.
C9_ConjunctiveClassification ==
    \A i \in 1..Len(tagged) :
        /\ ~tagged[i].silent <=> (HasBelowMin(tagged[i].frames) /\ HasAboveMax(tagged[i].frames))
        /\ (~HasBelowMin(tagged[i].frames) \/ ~HasAboveMax(tagged[i].frames))
              => tagged[i].silent

C9_Witness ==
    /\ Len(tagged) = 2
    /\ ~tagged[1].silent
    /\ tagged[2].silent /\ HasBelowMin(tagged[2].frames) /\ ~HasAboveMax(tagged[2].frames)

\* C10: clean shutdown. However the loop is left (end of input, interrupt, failed
\* read or write), the run ends with the input, the primary output and the bypass
\* output (if any) closed; end of input and interrupt leave no exception, any
\* other exception is still in flight once the files are closed.
C10_CleanShutdown ==
    /\ pc = "done" =>
          /\ {"input_wave", "output_wave"} \subseteq closed
          /\ bypass => "bypass_wave" \in closed
          /\ cause \in {"EOFError", "KeyboardInterrupt"} => exc = "None"
          /\ cause = "IOError" => exc = "IOError"
    /\ (~InLoop /\ pc # "done") => cause # "None"
    /\ closed # {} => pc = "done"

C10_Witness ==
    /\ pc = "done" /\ cause = "IOError" /\ exc = "IOError"
    /\ bypass /\ "bypass_wave" \in closed
    /\ Len(output_wave) > Len(bypass_wave)

\* C11 as stated: every chunk chunked_samples yields has at least one frame.
C11_ChunkerAsStated == \A i \in 1..Len(chunked) : Len(chunked[i].data) > 0

\* C11: chunked_samples yields an empty chunk once the input is exhausted, tag_chunks
\* answers it with EOFError. So every chunk tag_chunks yields has at least one
\* frame, there are no more of them than the input has blocks, an empty chunk is
\* the last thing chunked_samples yielded, and a run ended by EOFError has read
\* the whole input and tag_chunks has yielded each of its blocks.
C11_NonEmptyChunks ==
    /\ \A i \in 1..Len(tagged) : Len(tagged[i].frames.data) > 0
    /\ IsPrefix(FramesOf(tagged), InputBlocks)
    /\ \A i \in 1..Len(chunked) :
          Len(chunked[i].data) = 0 => (i = Len(chunked) /\ cause = "EOFError")
    /\ cause = "EOFError" =>
          /\ readpos = Len(input_wave)
          /\ FramesOf(tagged) = InputBlocks
          /\ chunked = Append(InputBlocks, [off |-> Len(input_wave), data |-> <<>>])

C11_Witness ==
    /\ EndOfStream
    /\ Len(tagged) >= 3
    /\ Len(chunked) = Len(tagged) + 1
    /\ Len(chunked[Len(chunked)].data) = 0
    /\ Len(tagged[Len(tagged)].frames.data) < ChunkBytes

\* ------------------------------------------------- truncated 16-bit input

MaxWideFrames == 4

\* 16-bit frames: 119 and 136 little-endian, and one with its top bit set.
WideFrames == {<<119, 0>>, <<136, 0>>, <<0, 136>>}

\* A 16-bit mono input whose last frame may lack its second byte.
InitTruncated ==
    \E fs \in SeqsUpTo(WideFrames, MaxWideFrames), rest \in SeqsUpTo(ByteVals, 1),
       endian \in {"little", "big"}, byp \in BOOLEAN :
        /\ SILENCE_MIN = DEFAULT_SILENCE_MIN
        /\ SILENCE_MAX = DEFAULT_SILENCE_MAX
        /\ INPUT_ENDIANNESS = endian
        /\ INPUT_SIGNEDNESS = "None"
        /\ Idle
        /\ Pipeline(Flatten(fs) \o rest, 2, 2, 1, byp, 1)

SpecTruncated == InitTruncated /\ [][Next]_vars

DecodeErrors == {"IndexError", "struct.error"}

Written == Range(output_wave) \cup Range(bypass_wave)

\* C12: no write after failure. Every block written to the primary or the bypass
\* output is one tag_chunks yielded (decoded and classified), with whole frames
\* only; when decoding the last chunk fails, or the empty chunk raises EOFError,
\* that chunk was not yielded by tag_chunks and is in neither output, in this
\* state or any later one.
C12_NoWriteAfterFailure ==
    /\ Written \subseteq Range(FramesOf(tagged))
    /\ \A b \in Written : Len(b.data) > 0 /\ Len(b.data) % FrameSize = 0
    /\ cause \in DecodeErrors =>
          LET failed == InputBlocks[NumChunks] IN
          /\ readpos = Len(input_wave)
          /\ decode_error(failed.data, sampwidth, nchannels, INPUT_ENDIANNESS) = cause
          /\ failed \notin Written
          /\ failed \notin Range(FramesOf(tagged))
          /\ \A b \in Written : b.off + Len(b.data) <= failed.off
    /\ cause = "EOFError" =>
          /\ chunked # <<>> /\ chunked[Len(chunked)].data = <<>>
          /\ chunked[Len(chunked)] \notin Written

C12_Witness ==
    /\ pc = "done" /\ cause = "IndexError" /\ exc = "IndexError"
    /\ bypass /\ bypass_wave # <<>> /\ output_wave # <<>>
    /\ Len(InputBlocks[NumChunks].data) = 3

\* ------------------------------------------------------- override scopes

MaxScopeDepth == 3

\* Arguments of silence_limits(min_, max_)
LimitArgs == {<<100, 150>>, <<120, 135>>}

\* Lines 67-71: silence_limits up to its yield
EnterSilenceLimits ==
    /\ ~raising /\ Len(scopes) < MaxScopeDepth
    /\ \E a \in LimitArgs :
        /\ scopes' = Append(scopes, [kind |-> "silence_limits",
                                     previous |-> <<SILENCE_MIN, SILENCE_MAX>>])
        /\ SILENCE_MIN' = a[1]
        /\ SILENCE_MAX' = a[2]
    /\ UNCHANGED <<INPUT_ENDIANNESS, INPUT_SIGNEDNESS, raising, sample_in, sample_out>>

\* Lines 49-54: input_endianness up to its yield
EnterInputEndianness ==
    /\ ~raising /\ Len(scopes) < MaxScopeDepth
    /\ \E val \in {"little", "big"} :
        /\ scopes' = Append(scopes, [kind |-> "input_endianness",
                                     previous |-> INPUT_ENDIANNESS])
        /\ INPUT_ENDIANNESS' = val
    /\ UNCHANGED <<SILENCE_MIN, SILENCE_MAX, INPUT_SIGNEDNESS, raising, sample_in,
                   sample_out>>

\* Lines 58-63: input_signedness up to its yield
EnterInputSignedness ==
    /\ ~raising /\ Len(scopes) < MaxScopeDepth
    /\ \E val \in {"None", "signed", "unsigned"} :
        /\ scopes' = Append(scopes, [kind |-> "input_signedness",
                                     previous |-> INPUT_SIGNEDNESS])
        /\ INPUT_SIGNEDNESS' = val
    /\ UNCHANGED <<SILENCE_MIN, SILENCE_MAX, INPUT_ENDIANNESS, raising, sample_in,
                   sample_out>>

Innermost == scopes[Len(scopes)]

Popped == SubSeq(scopes, 1, Len(scopes) - 1)

\* Lines 55, 64, 73: the body is done, the generator runs on after its yield.
ExitScope ==
    /\ ~raising /\ scopes # <<>>
    /\ scopes' = Popped
    /\ CASE Innermost.kind = "silence_limits" ->
              /\ SILENCE_MIN' = Innermost.previous[1]
              /\ SILENCE_MAX' = Innermost.previous[2]
              /\ UNCHANGED <<INPUT_ENDIANNESS, INPUT_SIGNEDNESS>>
         [] Innermost.kind = "input_endianness" ->
              /\ INPUT_ENDIANNESS' = Innermost.previous
              /\ UNCHANGED <<SILENCE_MIN, SILENCE_MAX, INPUT_SIGNEDNESS>>
         [] Innermost.kind = "input_signedness" ->
              /\ INPUT_SIGNEDNESS' = Innermost.previous
              /\ UNCHANGED <<SILENCE_MIN, SILENCE_MAX, INPUT_ENDIANNESS>>
    /\ UNCHANGED <<raising, sample_in, sample_out>>

\* The body of the innermost with statement raises (in main: open() of line 385,
\* or remove_silences re-raising what it does not catch).
BodyRaises ==
    /\ ~raising /\ scopes # <<>>
    /\ raising' = TRUE
    /\ UNCHANGED <<globals, scopes, sample_in, sample_out>>

\* The exception is thrown into the generator at its yield (lines 54, 63, 72);
\* the yield is in no try statement, so the generator ends there and the
\* assignment after it does not run.
ExceptionalExit ==
    /\ raising /\ scopes # <<>>
    /\ scopes' = Popped
    /\ UNCHANGED <<globals, raising, sample_in, sample_out>>

\* The caller of the outermost scope handles the exception and goes on.
Handled ==
    /\ raising /\ scopes = <<>>
    /\ raising' = FALSE
    /\ UNCHANGED <<globals, scopes, sample_in, sample_out>>

pipeline == <<params, readpos, tagger, grouper, pulling, pc, silent_segment,
              chunk_frames, files, exc, cause, chunked, tagged, emitted>>

NextScopes ==
    \/ EnterSilenceLimits /\ UNCHANGED pipeline
    \/ EnterInputEndianness /\ UNCHANGED pipeline
    \/ EnterInputSignedness /\ UNCHANGED pipeline
    \/ ExitScope /\ UNCHANGED pipeline
    \/ BodyRaises /\ UNCHANGED pipeline
    \/ ExceptionalExit /\ UNCHANGED pipeline
    \/ Handled /\ UNCHANGED pipeline

InitScopes == Start(<<>>, 2, 1, 1, FALSE, 1)

SpecScopes == InitScopes /\ [][NextScopes]_vars

\* C13: scoped overrides. Once every scope entered has been left, by its body
\* completing or by its body raising, each global holds the value it had before
\* the first scope was entered.
C13_ScopedOverrides == scopes = <<>> => DefaultGlobals

\* ------------------------------------------------- frame_to_sample alone

SampleBytes == {0, 1, 127, 128, 255}

NarrowWidths == {1, 2, 3}

\* A frame of every narrow width, mono or with a second channel, under every
\* setting of the two format globals.
InitSample ==
    \E sample_width \in NarrowWidths, nch \in {1, 2}, endian \in {"little", "big"},
       signedness \in {"None", "signed", "unsigned"} :
      \E first \in [1..sample_width -> SampleBytes] :
        /\ SILENCE_MIN = DEFAULT_SILENCE_MIN
        /\ SILENCE_MAX = DEFAULT_SILENCE_MAX
        /\ INPUT_ENDIANNESS = endian
        /\ INPUT_SIGNEDNESS = signedness
        /\ scopes = <<>>
        /\ raising = FALSE
        /\ sample_in = Some([frame |-> IF nch = 1 THEN first ELSE first \o first,
                             sample_width |-> sample_width])
        /\ sample_out = None
        /\ Pipeline(<<>>, 2, sample_width, nch, FALSE, 1)

\* Lines 198-253, called as parse_frames calls it (line 196)
FrameToSample ==
    /\ sample_in # None /\ sample_out = None
    /\ LET a == sample_in[1]
           signed_data == input_is_signed_data(INPUT_SIGNEDNESS, a.sample_width)
       IN  sample_out' =
             Some([padded |-> pad_frame(a.frame, a.sample_width, INPUT_ENDIANNESS),
                   sample |-> frame_to_sample(a.frame, a.sample_width, signed_data,
                                              INPUT_ENDIANNESS)])
    /\ UNCHANGED <<globals, scopes, raising, sample_in, pipeline>>

NextSample == FrameToSample

SpecSample == InitSample /\ [][NextSample]_vars

\* The first channel's bytes extended to four bytes by their sign: every added
\* high-order byte is 0xFF when the most-significant bit is set, 0x00 otherwise.
SignExtended(frame, sample_width, endian) ==
    LET frame_data == SubSeq(frame, 1, sample_width)
        msb == IF endian = "little" THEN frame_data[sample_width] ELSE frame_data[1]
        fill == [i \in 1..(4 - sample_width) |-> IF msb >= 128 THEN 255 ELSE 0]
    IN  IF endian = "little" THEN frame_data \o fill ELSE fill \o frame_data

\* C14: sample extension. For widths 1, 2 and 3 and either byte order the buffer
\* frame_to_sample unpacks is the first channel's bytes sign-extended to four
\* bytes, and the result is that buffer read as a signed or unsigned integer.
C14_SampleExtension ==
    sample_out # None =>
        LET a == sample_in[1]
            extended == SignExtended(a.frame, a.sample_width, INPUT_ENDIANNESS)
        IN  /\ sample_out[1].padded = extended
            /\ sample_out[1].sample =
                 unpack(INPUT_ENDIANNESS,
                        input_is_signed_data(INPUT_SIGNEDNESS, a.sample_width), extended)

\* How tag_chunks classified a block it yielded.
ClassifiedSilent(block) == \E i \in 1..Len(tagged) : tagged[i].frames = block /\ tagged[i].silent

\* C15: order preservation in the tagger. The chunks tag_segments has yielded are
\* chunks tag_chunks yielded, in strictly increasing order of arrival (offset in
\* the input), so none is yielded twice.
C15_EmittedInOrder ==
    /\ Range(FramesOf(emitted)) \subseteq Range(FramesOf(tagged))
    /\ \A i \in 1..(Len(emitted) - 1) :
          emitted[i].frames.off < emitted[i + 1].frames.off

\* A flushed pre-roll chunk between a chunk yielded SILENT and the audible chunk
\* that triggered the flush.
C15_Witness ==
    \E i \in 2..(Len(emitted) - 1) :
        /\ emitted[i - 1].silent
        /\ ~emitted[i].silent /\ ClassifiedSilent(emitted[i].frames)
        /\ ~emitted[i + 1].silent /\ ~ClassifiedSilent(emitted[i + 1].frames)
        /\ emitted[i + 1].frames.off = emitted[i].frames.off + ChunkBytes

\* The chunk tag_chunks yielded last, and the one before it.
Newest == tagged[Len(tagged)].frames

Previous == tagged[Len(tagged) - 1].frames

\* C16 as stated: in every state the buffer holds at most one chunk, and a chunk
\* it holds is silent-classified and is the chunk consumed last.
C16_AsStated ==
    /\ Len(pre_roll_buffer) <= 1
    /\ \A b \in Range(pre_roll_buffer) : ClassifiedSilent(b) /\ b = Newest

\* C16: bounded lookback. In every state the buffer holds at most one chunk, and a
\* chunk it holds is silent-classified. It is the chunk consumed last, except while
\* tag_segments is suspended at the pre-roll yield (line 133): there the buffer
\* still holds the chunk just yielded as pre-roll, and the chunk consumed last is
\* the audible one that triggered the flush. Pushing a chunk into the full buffer
\* (line 142) leaves just that chunk in it and yields the one older chunk with tag
\* SILENT in the same step (line 144).
C16_BoundedLookback ==
    /\ Len(pre_roll_buffer) <= 1
    /\ \A b \in Range(pre_roll_buffer) : ClassifiedSilent(b)
    /\ tpc # "y133" => \A b \in Range(pre_roll_buffer) : b = Newest
    /\ tpc = "y133" =>
          /\ pre_roll_buffer = <<Previous>>
          /\ emitted[Len(emitted)] = [silent |-> FALSE, frames |-> Previous]
          /\ ~ClassifiedSilent(Newest)
    /\ tpc = "y144" =>
          /\ pre_roll_buffer = <<Newest>>
          /\ emitted[Len(emitted)] = [silent |-> TRUE, frames |-> Previous]

C16_Witness ==
    /\ tpc = "y144"
    /\ Len(tagged) >= 3
    /\ pre_roll_buffer = <<Newest>>
    /\ emitted[Len(emitted)] = [silent |-> TRUE, frames |-> Previous]
    /\ \E i \in 1..Len(emitted) : ~emitted[i].silent

\* C18: whenever the running segment tag is AUDIBLE (segment_silent is False) the
\* pre-roll buffer is empty; it is non-empty only while the tag is SILENT.
C18_AudibleSegmentEmptyBuffer == ~segment_silent => pre_roll_buffer = <<>>

\* An audible segment entered through a pre-roll flush, later than the first chunk.
C18_Witness ==
    /\ ~segment_silent /\ pre_roll_buffer = <<>>
    /\ tpc = "for"
    /\ \E i \in 2..Len(emitted) :
          /\ ClassifiedSilent(emitted[i - 1].frames) /\ ~emitted[i - 1].silent
          /\ ~ClassifiedSilent(emitted[i].frames)

\* C19: prefix invariant. In every state of a run with a bypass output, the blocks
\* written so far to the bypass output are the first blocks of the input, in order.
C19_BypassIsPrefix == bypass => IsPrefix(bypass_wave, InputBlocks)

\* A bypass output with a block of a silent segment between blocks that also went
\* to the primary output.
C19_Witness ==
    /\ bypass /\ Len(bypass_wave) >= 4
    /\ \E i \in 2..(Len(bypass_wave) - 1) :
          /\ bypass_wave[i] \notin Range(output_wave)
          /\ bypass_wave[i - 1] \in Range(output_wave)
          /\ bypass_wave[i + 1] \in Range(output_wave)

\* The primary output as classifications: TRUE for a silent-classified chunk.
OutputSilent == [i \in 1..Len(output_wave) |-> ClassifiedSilent(output_wave[i])]

\* C20: bound on retained silence. In the primary output no three consecutive
\* chunks are silent-classified (a run is at most a post-roll and a pre-roll), the
\* output does not begin with two silent-classified chunks, and at the end of a run
\* over the whole input it does not end with two.
C20_RetainedSilenceBound ==
    LET n == Len(output_wave) IN
    /\ \A i \in 1..(n - 2) :
          ~(OutputSilent[i] /\ OutputSilent[i + 1] /\ OutputSilent[i + 2])
    /\ n >= 2 => ~(OutputSilent[1] /\ OutputSilent[2])
    /\ (EndOfStream /\ n >= 2) => ~(OutputSilent[n - 1] /\ OutputSilent[n])

\* A completed run whose output holds a post-roll followed by a pre-roll between
\* two audible chunks, and ends with a post-roll.
C20_Witness ==
    /\ EndOfStream
    /\ Len(output_wave) = 5
    /\ OutputSilent = <<FALSE, TRUE, TRUE, FALSE, TRUE>>

\* --------------------------------------------- a run without interruption

\* remove_silences left to run: no user interrupt, no failing read or write.
NextRun ==
    \/ TagFor
    \/ TagResumePreRoll
    \/ TagResumeTransition
    \/ TagResumeSame
    \/ GroupbyNext
    \/ GrouperNext
    \/ WriteBypassSilent
    \/ WriteOutput
    \/ WriteBypass
    \/ Except
    \/ Finally

MaxRunFrames == 5

InitRun ==
    \E data \in SeqsUpTo(ByteVals, MaxRunFrames), byp \in BOOLEAN :
        Start(data, 2, 1, 1, byp, 1)

\* The interpreter keeps executing the program while it has a step to take.
SpecRun == InitRun /\ [][NextRun]_vars /\ WF_vars(NextRun)

\* The run is over: nothing is pulling chunks, every wave object is closed.
Finalized ==
    /\ pc = "done" /\ ~pulling
    /\ {"input_wave", "output_wave"} \subseteq closed
    /\ bypass => "bypass_wave" \in closed

\* C17: termination. Without a user interrupt (and without an I/O failure) every
\* run over a finite input eventually reaches the end of the stream, by the
\* EOFError of tag_chunks, stops pulling chunks and closes its outputs.
C17_Termination == <>(Finalized /\ cause = "EOFError" /\ exc = "None")

C17_Witness ==
    /\ Finalized /\ cause = "EOFError" /\ exc = "None"
    /\ readpos = Len(input_wave)
    /\ Len(tagged) >= 3
    /\ output_wave # <<>>

====
